---- MODULE Spec2Model ----
(***************************************************************************)
(* HoopStats: the stat store (db.py) and the game session that drives it   *)
(* (app.py), as a state machine.                                           *)
(*                                                                         *)
(* The store is one record `db` whose fields are the four tables and the   *)
(* AUTOINCREMENT counters.  Every db.py function is an operator from a     *)
(* store (and its arguments) to a store; a function that can raise returns *)
(* [ok, db], the store being the one before the call when it raised (the   *)
(* connection is dropped without commit).                                  *)
(*                                                                         *)
(* A player name is the record [pre, base]: the text "HOME::Bob" is        *)
(* [pre |-> "HOME::", base |-> "Bob"], the text "Bob" is                   *)
(* [pre |-> "", base |-> "Bob"]; startswith() reads the field pre.         *)
(***************************************************************************)
EXTENDS Integers, Sequences, FiniteSets, TLC

VARIABLES
    db,         \* the tables: users, games, players, stats, and seq (sqlite_sequence)
    lastOp,     \* history: the last store call made, with its arguments
    lastPre,    \* history: the store that call was made on
    rosterArg,  \* history: per game, the arguments of the last set_roster that returned
    steps,      \* history: number of calls made so far (bounds the exploration)
    st,         \* st.session_state of the one browser session
    base,       \* history: per game, its stat rows when its undo stack was last empty
    clean       \* history: per game, roster unchanged and no undo record dropped since

vars == <<db, lastOp, lastPre, rosterArg, steps, st, base, clean>>

(***************************************************************************)
(* Bounds of the exploration.                                              *)
(***************************************************************************)
MaxGames == 1
MaxPlayers == 3
MaxDbSteps == 3

GameIds == 1..MaxGames
UserIds == 1..2

(***************************************************************************)
(* Configuration of app.py.                                                *)
(***************************************************************************)
STAT_KEYS == <<"2PM", "2PA", "3PM", "3PA", "FTM", "FTA", "OREB", "DREB",
               "AST", "TOV", "STL", "BLK", "PF">>

HOME_PREFIX == "HOME::"

AWAY_PREFIX == "AWAY::"

Nm(pre, b) == [pre |-> pre, base |-> b]

Range(s) == {s[i] : i \in DOMAIN s}

(***************************************************************************)
(* db.py                                                                   *)
(***************************************************************************)

\* The tables after init_db() on a fresh file: all empty.
EmptyDb ==
    [users |-> {}, games |-> {}, players |-> {}, stats |-> {},
     seq |-> [users |-> 0, games |-> 0, players |-> 0]]

\* (email or "").strip().lower() on the e-mail texts the model enters.
NormEmail(e) ==
    CASE e = " A@x.org " -> "a@x.org"
      [] e = "   " -> ""
      [] OTHER -> e

\* get_or_create_user: look up by normalised e-mail, insert only if absent.
GetOrCreateUserMut(d, e) ==
    LET em == NormEmail(e)
        row == {u \in d.users : u.email = em}
        id == d.seq.users + 1
    IN  IF em = "" THEN [ok |-> FALSE, id |-> 0, db |-> d]
        ELSE IF row # {}
        THEN [ok |-> TRUE, id |-> (CHOOSE u \in row : TRUE).id,
              db |-> [d EXCEPT !.users = {IF u \in row THEN [u EXCEPT !.is_pro = 0] ELSE u :
                                            u \in @}]]
        ELSE [ok |-> TRUE, id |-> id,
              db |-> [d EXCEPT !.users = @ \cup {[id |-> id, email |-> em, is_pro |-> 0]},
                               !.seq.users = id]]

GetOrCreateUser(d, e) ==
    LET em == NormEmail(e)
        row == {u \in d.users : u.email = em}
        id == d.seq.users + 1
    IN  IF em = "" THEN [ok |-> FALSE, id |-> 0, db |-> d]
        ELSE IF row # {} THEN [ok |-> TRUE, id |-> (CHOOSE u \in row : TRUE).id, db |-> d]
        ELSE [ok |-> TRUE, id |-> id,
              db |-> [d EXCEPT !.users = @ \cup {[id |-> id, email |-> em, is_pro |-> 0]},
                               !.seq.users = id]]

\* is_user_pro
IsUserPro(d, user_id) == \E u \in d.users : u.id = user_id /\ u.is_pro = 1

\* set_user_pro: UPDATE users SET is_pro = ? WHERE id = ?
SetUserPro(d, user_id, is_pro) ==
    [d EXCEPT !.users = {IF u.id = user_id
                         THEN [u EXCEPT !.is_pro = IF is_pro THEN 1 ELSE 0]
                         ELSE u : u \in @}]

\* create_game: the INSERT raises when user_id references no user (foreign key).
CreateGame(d, user_id) ==
    LET id == d.seq.games + 1
    IN  IF \A u \in d.users : u.id # user_id THEN [ok |-> FALSE, id |-> 0, db |-> d]
        ELSE [ok |-> TRUE, id |-> id,
              db |-> [d EXCEPT !.games = @ \cup {[id |-> id, user_id |-> user_id]},
                               !.seq.games = id]]

\* ON DELETE CASCADE of the schema: a deleted game takes its players and its
\* stats, a deleted player takes its stats.
CascadeMut(d, gone_games, gone_players) ==
    LET players2 == {p \in d.players \ gone_players : p.game_id \notin gone_games}
    IN  [d EXCEPT !.players = players2]

Cascade(d, gone_games, gone_players) ==
    LET players2 == {p \in d.players \ gone_players : p.game_id \notin gone_games}
        dead == {p.id : p \in d.players \ players2}
    IN  [d EXCEPT !.players = players2,
                  !.stats = {s \in @ : s.game_id \notin gone_games
                                       /\ s.player_id \notin dead}]

\* delete_game: DELETE FROM games WHERE id = ? AND user_id = ?
DeleteGameMut(d, user_id, game_id) ==
    LET gone == {g \in d.games : g.id = game_id}
    IN  Cascade([d EXCEPT !.games = @ \ gone], {g.id : g \in gone}, {})

DeleteGame(d, user_id, game_id) ==
    LET gone == {g \in d.games : g.id = game_id /\ g.user_id = user_id}
    IN  Cascade([d EXCEPT !.games = @ \ gone], {g.id : g \in gone}, {})

\* The rows of a set of player rows, in ascending id (ORDER BY id).
RECURSIVE OrderByIdMut(_)
OrderByIdMut(S) ==
    IF S = {} THEN <<>>
    ELSE LET m == CHOOSE x \in S : \A y \in S : x.id >= y.id
         IN  <<m>> \o OrderByIdMut(S \ {m})

RECURSIVE OrderById(_)
OrderById(S) ==
    IF S = {} THEN <<>>
    ELSE LET m == CHOOSE x \in S : \A y \in S : x.id <= y.id
         IN  <<m>> \o OrderById(S \ {m})

PlayersOf(d, game_id) == {p \in d.players : p.game_id = game_id}

\* Rows of the tables, by what they reference.
Touched(d, g, p, change) ==
    {s \in d.stats : s.game_id = g /\ s.player_id = p /\ s.stat_key \in DOMAIN change}

StatsOfGame(d, g) == {s \in d.stats : s.game_id = g}

StatsOfPlayer(d, pid) == {s \in d.stats : s.player_id = pid}

NamesOf(d, g) == {p.name : p \in PlayersOf(d, g)}

\* `name not in existing_by_name`, for the names of the list in order.
RECURSIVE Missing(_, _)
Missing(roster, have) ==
    IF roster = <<>> THEN <<>>
    ELSE (IF Head(roster) \in have THEN <<>> ELSE <<Head(roster)>>)
         \o Missing(Tail(roster), have)

\* INSERT OR IGNORE INTO stats ... VALUES (game, pid, k, 0) for every player
\* of the game and every key: a row is added only when the key has none.
SeedStatsMut(d, game_id, stat_keys) ==
    [d EXCEPT !.stats = @ \cup
        {[game_id |-> game_id, player_id |-> p.id, stat_key |-> k, stat_value |-> 0] :
            p \in PlayersOf(d, game_id), k \in Range(stat_keys)}]

SeedStats(d, game_id, stat_keys) ==
    LET have == {<<s.game_id, s.player_id, s.stat_key>> : s \in d.stats}
    IN  [d EXCEPT !.stats = @ \cup
            {[game_id |-> game_id, player_id |-> pk[1], stat_key |-> pk[2], stat_value |-> 0] :
                pk \in {qk \in {p.id : p \in PlayersOf(d, game_id)} \X Range(stat_keys) :
                            <<game_id, qk[1], qk[2]>> \notin have}}]

\* The index of the first INSERT INTO players that raises (0 when none
\* does): the name was inserted earlier in the call (UNIQUE(game_id, name))
\* or the game does not exist (foreign key).
FirstBad(add, game_ok) ==
    LET bad == {i \in DOMAIN add : ~game_ok \/ \E j \in 1..(i - 1) : add[j] = add[i]}
    IN  IF bad = {} THEN 0 ELSE CHOOSE i \in bad : \A j \in bad : i <= j

\* What a call leaves in the store: tx, the rows as its connection wrote
\* them, when it reached c.commit(); the rows d it started from when a
\* statement raised before that (the connection is dropped, uncommitted).
CommitMut(d, tx, ok) == tx

Commit(d, tx, ok) == IF ok THEN tx ELSE d

\* set_roster
SetRosterMut(d, game_id, roster, stat_keys) ==
    LET existing == PlayersOf(d, game_id)
        old_set == {p.name : p \in existing}
        add == Missing(roster, old_set)
        bad == FirstBad(add, \E g \in d.games : g.id = game_id)
        n == IF bad = 0 THEN Len(add) ELSE bad - 1
        d2 == [d EXCEPT !.players = @ \cup
                    {[id |-> d.seq.players + i, game_id |-> game_id, name |-> add[i]] :
                        i \in 1..n},
                 !.seq.players = @ + n]
    IN  IF bad # 0
        THEN [ok |-> FALSE, db |-> Commit(d, d2, FALSE)]
        ELSE [ok |-> TRUE, db |-> Commit(d, SeedStats(d2, game_id, stat_keys), TRUE)]

SetRosterReuseMut(d, game_id, roster, stat_keys) ==
    LET existing == PlayersOf(d, game_id)
        old_set == {p.name : p \in existing}
        new_set == Range(roster)
        removed == {p \in existing : p.name \in old_set \ new_set}
        d1 == Cascade(d, {}, removed)
        add == Missing(roster, old_set)
        top == IF d1.players = {} THEN 0
               ELSE CHOOSE m \in {p.id : p \in d1.players} : \A p \in d1.players : p.id <= m
        bad == FirstBad(add, \E g \in d.games : g.id = game_id)
        n == IF bad = 0 THEN Len(add) ELSE bad - 1
        d2 == [d1 EXCEPT !.players = @ \cup
                    {[id |-> top + i, game_id |-> game_id, name |-> add[i]] :
                        i \in 1..n},
                 !.seq.players = @ + n]
    IN  IF bad # 0
        THEN [ok |-> FALSE, db |-> Commit(d, d2, FALSE)]
        ELSE [ok |-> TRUE, db |-> Commit(d, SeedStats(d2, game_id, stat_keys), TRUE)]

SetRoster(d, game_id, roster, stat_keys) ==
    LET existing == PlayersOf(d, game_id)
        old_set == {p.name : p \in existing}
        new_set == Range(roster)
        removed == {p \in existing : p.name \in old_set \ new_set}
        d1 == Cascade(d, {}, removed)
        add == Missing(roster, old_set)
        bad == FirstBad(add, \E g \in d.games : g.id = game_id)
        n == IF bad = 0 THEN Len(add) ELSE bad - 1
        d2 == [d1 EXCEPT !.players = @ \cup
                    {[id |-> d.seq.players + i, game_id |-> game_id, name |-> add[i]] :
                        i \in 1..n},
                 !.seq.players = @ + n]
    IN  IF bad # 0
        THEN [ok |-> FALSE, db |-> Commit(d, d2, FALSE)]
        ELSE [ok |-> TRUE, db |-> Commit(d, SeedStats(d2, game_id, stat_keys), TRUE)]

\* load_game: the roster, the players of the game in ascending id.
LoadRoster(d, game_id) ==
    LET players == OrderById(PlayersOf(d, game_id))
    IN  [i \in DOMAIN players |-> players[i].name]

\* load_game: name_to_pid
LoadNameToPid(d, game_id) ==
    LET players == PlayersOf(d, game_id)
    IN  [n \in {p.name : p \in players} |-> (CHOOSE p \in players : p.name = n).id]

\* load_game: the dict of one player, {k: 0 for k in stat_keys} updated with
\* the rows stored for the player.
LoadStatsOfMut(d, game_id, pid, stat_keys) ==
    [k \in Range(stat_keys) |-> 0]

LoadStatsOf(d, game_id, pid, stat_keys) ==
    LET rows == {s \in d.stats : s.game_id = game_id /\ s.player_id = pid}
        stored == {s.stat_key : s \in rows}
    IN  [k \in Range(stat_keys) \cup stored |->
            IF k \in stored THEN (CHOOSE s \in rows : s.stat_key = k).stat_value ELSE 0]

\* load_game: (roster, name_to_pid, player_stats).  ok: the call returns;
\* none of its SELECTs raises, whatever the game id.
LoadGame(d, game_id, stat_keys) ==
    [ok |-> TRUE,
     roster |-> LoadRoster(d, game_id),
     name_to_pid |-> LoadNameToPid(d, game_id),
     player_stats |->
        [n \in NamesOf(d, game_id) |->
            LoadStatsOf(d, game_id, LoadNameToPid(d, game_id)[n], stat_keys)]]

\* apply_change: UPDATE stats SET stat_value = stat_value + direction * v
\* WHERE game_id = ? AND player_id = ? AND stat_key = k, for each (k, v).
ApplyChangeMut(d, game_id, player_id, change, direction) ==
    [d EXCEPT !.stats =
        {IF s.game_id = game_id /\ s.player_id = player_id /\ s.stat_key \in DOMAIN change
         THEN [s EXCEPT !.stat_value = @ + change[s.stat_key]]
         ELSE s : s \in @}]

ApplyChangeKeepMut(d, game_id, player_id, change, direction) ==
    [d EXCEPT !.stats = @ \cup
        {[s EXCEPT !.stat_value = @ + direction * change[s.stat_key]] :
            s \in {t \in @ : t.game_id = game_id /\ t.player_id = player_id
                                /\ t.stat_key \in DOMAIN change}}]

ApplyChangeClampMut(d, game_id, player_id, change, direction) ==
    [d EXCEPT !.stats =
        {IF s.game_id = game_id /\ s.player_id = player_id /\ s.stat_key \in DOMAIN change
         THEN [s EXCEPT !.stat_value = IF @ + direction * change[s.stat_key] < 0 THEN 0
                                       ELSE @ + direction * change[s.stat_key]]
         ELSE s : s \in @}]

ApplyChangeAnyGameMut(d, game_id, player_id, change, direction) ==
    [d EXCEPT !.stats =
        {IF s.player_id = player_id /\ s.stat_key \in DOMAIN change
         THEN [s EXCEPT !.stat_value = @ + direction * change[s.stat_key]]
         ELSE s : s \in @}]

ApplyChange(d, game_id, player_id, change, direction) ==
    [d EXCEPT !.stats =
        {IF s.game_id = game_id /\ s.player_id = player_id /\ s.stat_key \in DOMAIN change
         THEN [s EXCEPT !.stat_value = @ + direction * change[s.stat_key]]
         ELSE s : s \in @}]

(***************************************************************************)
(* app.py: configuration and helpers                                       *)
(***************************************************************************)
\* How many of the five default names of each side the model seeds.
NDefault == 1

DEFAULT_HOME ==
    SubSeq(<<"Player 1", "Player 2", "Player 3", "Player 4", "Player 5">>, 1, NDefault)

DEFAULT_AWAY ==
    SubSeq(<<"Opponent 1", "Opponent 2", "Opponent 3", "Opponent 4", "Opponent 5">>,
           1, NDefault)

ADMIN_EMAILS == {"b@x.org"}

LogCap == 500

UndoCap == 200

\* None, and the empty text.
NoName == Nm("", "")

points(s) == s["2PM"] * 2 + s["3PM"] * 3 + s["FTM"]

fgm(s) == s["2PM"] + s["3PM"]

fga(s) == s["2PA"] + s["3PA"]

\* change.get(k, 0)
Get(change, k) == IF k \in DOMAIN change THEN change[k] ELSE 0

change_points(change) ==
    Get(change, "2PM") * 2 + Get(change, "3PM") * 3 + Get(change, "FTM")

clean_name(n) == n.base

team_of(n) ==
    IF n.pre = HOME_PREFIX THEN "Home"
    ELSE IF n.pre = AWAY_PREFIX THEN "Away"
    ELSE "Home"

\* add_prefix on a typed line: a blank line gives "", a line that carries a
\* prefix is kept, any other line gets the prefix of the team.
add_prefix(team, line) ==
    IF line = NoName THEN NoName
    ELSE IF line.pre = HOME_PREFIX \/ line.pre = AWAY_PREFIX THEN line
    ELSE Nm(IF team = "Home" THEN HOME_PREFIX ELSE AWAY_PREFIX, line.base)

is_both_teams_game(roster) ==
    /\ \E i \in DOMAIN roster : roster[i].pre = HOME_PREFIX
    /\ \E i \in DOMAIN roster : roster[i].pre = AWAY_PREFIX

RECURSIVE Filter(_, _)
Filter(seq, keep) ==
    IF seq = <<>> THEN <<>>
    ELSE (IF Head(seq) \in keep THEN <<Head(seq)>> ELSE <<>>) \o Filter(Tail(seq), keep)

\* [add_prefix(team, x) for x in text.splitlines() if x.strip()]
PrefixedLines(team, text) ==
    LET kept == Filter(text, Range(text) \ {NoName})
    IN  [i \in DOMAIN kept |-> add_prefix(team, kept[i])]

\* seq[-cap:]
LastNMut(seq, cap) == IF Len(seq) > cap THEN SubSeq(seq, 1, cap) ELSE seq

LastN(seq, cap) == IF Len(seq) > cap THEN SubSeq(seq, Len(seq) - cap + 1, Len(seq)) ELSE seq

CombinedDefault ==
    [i \in DOMAIN DEFAULT_HOME |-> add_prefix("Home", Nm("", DEFAULT_HOME[i]))]
    \o [i \in DOMAIN DEFAULT_AWAY |-> add_prefix("Away", Nm("", DEFAULT_AWAY[i]))]

HomeDefault == [i \in DOMAIN DEFAULT_HOME |-> add_prefix("Home", Nm("", DEFAULT_HOME[i]))]

(***************************************************************************)
(* app.py: the session.  st is st.session_state: email, game_id (0 is      *)
(* None), the value of the game selectbox (choice, 0 is "New Game"), and   *)
(* per game id the keys log_<gid>, undo_<gid>, selected_player_value_<gid> *)
(* and live_team_<gid>.  A handler is an operator from (db, st) to         *)
(* [db, st]; Script is the run of the script that follows every handler.   *)
(* A log entry keeps team, player and pts (ts, period and label are        *)
(* display text).  The search box is left empty, the page is Live.         *)
(***************************************************************************)
NewSession ==
    [email |-> "", game_id |-> 0, choice |-> 0,
     log |-> [g \in GameIds |-> <<>>],
     undo |-> [g \in GameIds |-> <<>>],
     sel |-> [g \in GameIds |-> NoName],
     live_team |-> [g \in GameIds |-> "Home"],
     upgraded |-> FALSE, paid |-> {}]

UserIdOf(d, em) ==
    LET row == {u \in d.users : u.email = em}
    IN  IF row = {} THEN 0 ELSE (CHOOSE u \in row : TRUE).id

home_roster(roster) == Filter(roster, {n \in Range(roster) : team_of(n) = "Home"})

away_roster(roster) == Filter(roster, {n \in Range(roster) : team_of(n) = "Away"})

\* active_roster of the Live page (filtered_roster with an empty search).
active_roster(roster, team) ==
    IF is_both_teams_game(roster)
    THEN (IF team = "Home" THEN home_roster(roster) ELSE away_roster(roster))
    ELSE (IF home_roster(roster) # <<>> THEN home_roster(roster) ELSE roster)

\* The controlled selection of the Live page (lines 659-662).
LivePage(d, s) ==
    LET gid == s.game_id
        roster == LoadRoster(d, gid)
        filtered == active_roster(roster, s.live_team[gid])
        cur == IF s.sel[gid] = NoName THEN filtered[1] ELSE s.sel[gid]
    IN  IF roster = <<>> THEN s
        ELSE [s EXCEPT !.sel[gid] = IF cur \notin Range(filtered) THEN filtered[1] ELSE cur]

\* One run of the script, top to bottom, no button pressed.
Script(d, s) ==
    IF s.email = "" THEN [db |-> d, st |-> s]
    ELSE
    LET u == GetOrCreateUser(d, s.email)
        d0 == IF s.email \in ADMIN_EMAILS THEN SetUserPro(u.db, u.id, TRUE) ELSE u.db
        d1 == IF s.upgraded THEN SetUserPro(d0, u.id, TRUE) ELSE d0
        options == {g.id : g \in {g \in d1.games : g.user_id = u.id}}
        choice == IF s.choice \in options THEN s.choice ELSE 0
        gid == IF choice # 0 THEN choice ELSE s.game_id
        s1 == [s EXCEPT !.choice = choice, !.game_id = gid, !.upgraded = FALSE]
        seeded == SetRoster(d1, gid, CombinedDefault, STAT_KEYS)
        empty == LoadRoster(d1, gid) = <<>>
    IN  IF gid = 0 \/ (empty /\ ~seeded.ok) THEN [db |-> d1, st |-> s1]
        ELSE LET d2 == IF empty THEN seeded.db ELSE d1
             IN  [db |-> d2, st |-> LivePage(d2, s1)]

\* The app's address opened in the browser, with or without ?upgraded=1: a
\* new session, whose query parameters stay until the script clears them.
OpenUrl(d, s, upgraded) ==
    Script(d, [NewSession EXCEPT !.upgraded = upgraded, !.paid = s.paid])

\* The checkout of the Account page completed for the user signed in: the
\* billing provider sends the browser to STRIPE_SUCCESS_URL.
CheckoutDone(d, s) ==
    Script(d, [NewSession EXCEPT !.upgraded = TRUE, !.paid = s.paid \cup {s.email}])

\* "Save Email": the local login.
SaveEmail(d, s, e) == Script(d, [s EXCEPT !.email = NormEmail(e)])

\* The game selectbox.
ChooseGame(d, s, c) == Script(d, [s EXCEPT !.choice = c])

\* "Create": create_game, then the default roster of the tracking mode.
CreateGameBtn(d, s, both) ==
    LET c == CreateGame(d, UserIdOf(d, s.email))
        r == SetRoster(c.db, c.id, IF both THEN CombinedDefault ELSE HomeDefault, STAT_KEYS)
    IN  IF ~c.ok THEN [db |-> d, st |-> s]
        ELSE IF ~r.ok THEN [db |-> c.db, st |-> [s EXCEPT !.game_id = c.id]]
        ELSE Script(r.db, [s EXCEPT !.game_id = c.id])

\* "Delete game"
DeleteGameBtn(d, s) ==
    Script(DeleteGame(d, UserIdOf(d, s.email), s.game_id), [s EXCEPT !.game_id = 0])

\* "Update Rosters" (both teams)
UpdateRosters(d, s, home_text, away_text) ==
    LET new_home == PrefixedLines("Home", home_text)
        new_away == PrefixedLines("Away", away_text)
        r == SetRoster(d, s.game_id, new_home \o new_away, STAT_KEYS)
    IN  IF new_home = <<>> \/ new_away = <<>> \/ ~r.ok THEN [db |-> d, st |-> s]
        ELSE Script(r.db, s)

\* "Update Roster" (one team)
UpdateRoster(d, s, roster_text) ==
    LET new_roster == PrefixedLines("Home", roster_text)
        r == SetRoster(d, s.game_id, new_roster, STAT_KEYS)
    IN  IF new_roster = <<>> \/ ~r.ok THEN [db |-> d, st |-> s]
        ELSE Script(r.db, s)

\* The HOME / AWAY buttons of the Live page.
SetLiveTeam(d, s, team) == Script(d, [s EXCEPT !.live_team[s.game_id] = team])

\* The player radio (_sync_selected_player).
SyncSelectedPlayer(d, s, n) == Script(d, [s EXCEPT !.sel[s.game_id] = n])

\* _push_log
PushLog(log, team, player_name, change) ==
    LastN(Append(log, [team |-> team, player |-> clean_name(player_name),
                       pts |-> change_points(change)]), LogCap)

\* apply_delta
ApplyDeltaMut(d, s, change, direction) ==
    LET gid == s.game_id
        L == [roster |-> LoadRoster(d, gid), name_to_pid |-> LoadNameToPid(d, gid)]
        fallback == IF home_roster(L.roster) # <<>> THEN home_roster(L.roster)[1]
                    ELSE L.roster[1]
        current_player == IF s.sel[gid] = NoName THEN fallback ELSE s.sel[gid]
        current_pid == L.name_to_pid[current_player]
        did_log == TRUE
        log2 == PushLog(s.log[gid], team_of(current_player), current_player, change)
        rec == [pid |-> current_pid, change |-> change, dir |-> direction,
                logged |-> did_log]
    IN  IF current_player \notin DOMAIN L.name_to_pid THEN Script(d, s)
        ELSE Script(ApplyChange(d, gid, current_pid, change, direction),
                    [s EXCEPT !.log[gid] = log2,
                              !.undo[gid] = LastN(Append(@, rec), UndoCap)])

ApplyDelta(d, s, change, direction) ==
    LET gid == s.game_id
        L == [roster |-> LoadRoster(d, gid), name_to_pid |-> LoadNameToPid(d, gid)]
        fallback == IF home_roster(L.roster) # <<>> THEN home_roster(L.roster)[1]
                    ELSE L.roster[1]
        current_player == IF s.sel[gid] = NoName THEN fallback ELSE s.sel[gid]
        current_pid == L.name_to_pid[current_player]
        did_log == direction = 1
        log2 == IF did_log
                THEN PushLog(s.log[gid], team_of(current_player), current_player, change)
                ELSE s.log[gid]
        rec == [pid |-> current_pid, change |-> change, dir |-> direction,
                logged |-> did_log]
    IN  IF current_player \notin DOMAIN L.name_to_pid THEN Script(d, s)
        ELSE Script(ApplyChange(d, gid, current_pid, change, direction),
                    [s EXCEPT !.log[gid] = log2,
                              !.undo[gid] = LastN(Append(@, rec), UndoCap)])

\* stack.pop(): what is left of the list
FrontMut(seq) == Tail(seq)

Front(seq) == SubSeq(seq, 1, Len(seq) - 1)

\* undo_last
UndoLastMut(d, s) ==
    LET gid == s.game_id
        stack == s.undo[gid]
        last == stack[Len(stack)]
    IN  IF stack = <<>> THEN Script(d, s)
        ELSE Script(ApplyChange(d, gid, last.pid, last.change, -1 * last.dir),
                    [s EXCEPT !.undo[gid] = Front(stack),
                              !.log[gid] = IF @ # <<>> THEN Front(@) ELSE @])

UndoLastKeepLogMut(d, s) ==
    LET gid == s.game_id
        stack == s.undo[gid]
        last == stack[Len(stack)]
    IN  IF stack = <<>> THEN Script(d, s)
        ELSE Script(ApplyChange(d, gid, last.pid, last.change, -1 * last.dir),
                    [s EXCEPT !.undo[gid] = Front(stack)])

UndoLastEmptyMut(d, s) ==
    LET gid == s.game_id
        stack == s.undo[gid]
        last == stack[Len(stack)]
    IN  IF stack = <<>>
        THEN Script(ApplyChange(d, gid, LoadNameToPid(d, gid)[s.sel[gid]], ("2PM" :> 1), -1), s)
        ELSE Script(ApplyChange(d, gid, last.pid, last.change, -1 * last.dir),
                    [s EXCEPT !.undo[gid] = Front(stack),
                              !.log[gid] = IF last.logged /\ @ # <<>> THEN Front(@) ELSE @])

UndoLast(d, s) ==
    LET gid == s.game_id
        stack == s.undo[gid]
        last == stack[Len(stack)]
    IN  IF stack = <<>> THEN Script(d, s)
        ELSE Script(ApplyChange(d, gid, last.pid, last.change, -1 * last.dir),
                    [s EXCEPT !.undo[gid] = Front(stack),
                              !.log[gid] = IF last.logged /\ @ # <<>> THEN Front(@) ELSE @])

(***************************************************************************)
(* SpecDb: the store driven directly, the way a test of db.py drives it.   *)
(***************************************************************************)
Emails == {"a@x.org", " A@x.org ", "b@x.org", "   ", ""}

\* The name lists passed to set_roster: empty, one name, two names
\* in either order, a stored name twice, a new name twice.
DbRosters ==
    {<<>>,
     <<Nm(HOME_PREFIX, "A")>>,
     <<Nm(HOME_PREFIX, "A"), Nm(AWAY_PREFIX, "B")>>,
     <<Nm(AWAY_PREFIX, "B"), Nm(HOME_PREFIX, "A")>>,
     <<Nm(HOME_PREFIX, "A"), Nm("", "C")>>,
     <<Nm(HOME_PREFIX, "A"), Nm(HOME_PREFIX, "A")>>,
     <<Nm("", "C"), Nm("", "C")>>}

DbKeyLists == {STAT_KEYS}

\* The deltas passed to apply_change.
DbChanges == {("2PM" :> 1) @@ ("2PA" :> 1), ("3PM" :> 2)}

NoOp == [op |-> "none"]

NoArg == [set |-> FALSE, roster |-> <<>>, stat_keys |-> <<>>]

\* A store the calls below reach: one user, one game of that user, a roster
\* of two players, and `seed` applied once to the first player.
DbFixtureRoster == <<Nm(HOME_PREFIX, "A"), Nm(AWAY_PREFIX, "B")>>

DbFixture(seed) ==
    LET d1 == GetOrCreateUser(EmptyDb, "a@x.org").db
        d2 == CreateGame(d1, 1).db
        d3 == SetRoster(d2, 1, DbFixtureRoster, STAT_KEYS).db
    IN  ApplyChange(d3, 1, 1, seed, 1)

\* The counters the first player starts from in a fixture.
DbSeeds == {("2PM" :> 0),
            ("2PM" :> 1) @@ ("2PA" :> 2) @@ ("3PM" :> 2) @@ ("FTM" :> 1) @@ ("FTA" :> 1)}

\* The user of the fixture with counters off zero is on the pro plan.
DbPro(seed) == \E k \in DOMAIN seed : seed[k] # 0

\* The store starts empty (after init_db) or from a fixture.
InitDb ==
    /\ \/ /\ db = EmptyDb
          /\ rosterArg = [g \in GameIds |-> NoArg]
       \/ \E seed \in DbSeeds :
            /\ db = SetUserPro(DbFixture(seed), 1, DbPro(seed))
            /\ rosterArg = [g \in GameIds |->
                    IF g = 1 THEN [set |-> TRUE, roster |-> DbFixtureRoster,
                                   stat_keys |-> STAT_KEYS]
                    ELSE NoArg]
    /\ lastOp = NoOp
    /\ lastPre = EmptyDb
    /\ steps = 0
    /\ st = NewSession
    /\ base = [g \in GameIds |-> {}]
    /\ clean = [g \in GameIds |-> TRUE]

\* Every call counts as a step and is remembered with the store it was made
\* on.  An apply_change that is the exact negation of the call before it (and
\* that call was not itself such a negation) is marked `negates`, and keeps
\* the store the first call of the pair was made on.
Negates(op) ==
    /\ op.op = "apply_change" /\ lastOp.op = "apply_change" /\ ~lastOp.negates
    /\ op.game_id = lastOp.game_id /\ op.player_id = lastOp.player_id
    /\ op.change = lastOp.change /\ op.direction = -lastOp.direction

Hist(op) ==
    /\ steps < MaxDbSteps
    /\ steps' = steps + 1
    /\ lastOp' = IF op.op = "apply_change" THEN [op EXCEPT !.negates = Negates(op)] ELSE op
    /\ lastPre' = IF Negates(op) THEN lastPre ELSE db

DbGetOrCreateUser(e) ==
    /\ Hist([op |-> "get_or_create_user", email |-> e,
             ok |-> GetOrCreateUser(db, e).ok, id |-> GetOrCreateUser(db, e).id,
             prev_id |-> IF lastOp.op = "get_or_create_user" /\ lastOp.email = e
                         THEN lastOp.id ELSE 0])
    /\ db.seq.users < Cardinality(UserIds)
    /\ db' = GetOrCreateUser(db, e).db
    /\ UNCHANGED <<rosterArg, st, base, clean>>

DbCreateGame(u) ==
    /\ Hist([op |-> "create_game", user_id |-> u])
    /\ db.seq.games < MaxGames
    /\ db' = CreateGame(db, u).db
    /\ UNCHANGED <<rosterArg, st, base, clean>>

DbDeleteGame(u, g) ==
    /\ Hist([op |-> "delete_game", user_id |-> u, game_id |-> g])
    /\ db' = DeleteGame(db, u, g)
    /\ UNCHANGED <<rosterArg, st, base, clean>>

DbSetRoster(g, roster, keys) ==
    LET r == SetRoster(db, g, roster, keys)
    IN  /\ Hist([op |-> "set_roster", game_id |-> g, roster |-> roster,
                 stat_keys |-> keys, ok |-> r.ok,
                 again |-> rosterArg[g] = [set |-> TRUE, roster |-> roster,
                                           stat_keys |-> keys]])
        /\ r.db.seq.players <= MaxPlayers
        /\ db' = r.db
        /\ rosterArg' = IF r.ok
                        THEN [rosterArg EXCEPT ![g] = [set |-> TRUE, roster |-> roster,
                                                       stat_keys |-> keys]]
                        ELSE rosterArg
        /\ UNCHANGED <<st, base, clean>>

DbApplyChange(g, p, change, direction) ==
    /\ Hist([op |-> "apply_change", game_id |-> g, player_id |-> p,
             change |-> change, direction |-> direction, negates |-> FALSE, pre |-> db])
    /\ db' = ApplyChange(db, g, p, change, direction)
    /\ UNCHANGED <<rosterArg, st, base, clean>>

\* The key lists passed to load_game: the keys of the app, and a list with a
\* key no row is stored for.
DbLoadKeys == {STAT_KEYS, <<"2PM", "MIN">>}

DbLoadGame(g, keys) ==
    /\ Hist([op |-> "load_game", game_id |-> g, stat_keys |-> keys,
             result |-> LoadGame(db, g, keys)])
    /\ UNCHANGED <<db, rosterArg, st, base, clean>>

NextDb ==
    \/ \E g \in GameIds, keys \in DbLoadKeys : DbLoadGame(g, keys)
    \/ \E e \in Emails : DbGetOrCreateUser(e)
    \/ \E u \in UserIds : DbCreateGame(u)
    \/ \E u \in UserIds, g \in GameIds : DbDeleteGame(u, g)
    \/ \E g \in GameIds, roster \in DbRosters, keys \in DbKeyLists : DbSetRoster(g, roster, keys)
    \/ \E g \in GameIds \cup {MaxGames + 1}, p \in 1..MaxPlayers, change \in DbChanges,
          direction \in {1, -1} :
            DbApplyChange(g, p, change, direction)

SpecDb == InitDb /\ [][NextDb]_vars

(***************************************************************************)
(* Spec: one browser session of app.py.  Every action is one handler and   *)
(* the run of the script that follows it.                                  *)
(***************************************************************************)
MaxAppSteps == 3

\* Player rows the roster editor may add beyond the default rosters.
MaxNewPlayers == 1

AppEmails == {"a@x.org", "b@x.org"}

Line(b) == Nm("", b)

\* What is typed into the two roster boxes of a both-teams game: a player
\* added, a player replaced, the Home box emptied, the Away box left blank,
\* and a Home box whose only line is typed with the Away prefix.
BothEdits ==
    {[home |-> <<Line("Player 1"), Line("A")>>, away |-> <<Line("Opponent 1")>>],
     [home |-> <<Line("A")>>, away |-> <<Line("Opponent 1")>>],
     [home |-> <<>>, away |-> <<Line("Opponent 1")>>],
     [home |-> <<Line("Player 1")>>, away |-> <<Line("")>>],
     [home |-> <<Nm(AWAY_PREFIX, "A")>>, away |-> <<Line("Opponent 1")>>]}

\* What is typed into the roster box of a one-team game.
OneEdits == {<<Line("Player 1"), Line("A")>>, <<Line("A")>>, <<Line("")>>}

\* The buttons pressed on the Live page: pm_row rows (plus and minus) and the
\* And-1 quick action (plus only).
Made2 == ("2PM" :> 1) @@ ("2PA" :> 1)

Made3 == ("3PM" :> 1) @@ ("3PA" :> 1)

And1 == ("2PM" :> 1) @@ ("2PA" :> 1) @@ ("FTM" :> 1) @@ ("FTA" :> 1)

AppActions ==
    {[change |-> Made2, direction |-> 1], [change |-> Made2, direction |-> -1],
     [change |-> Made3, direction |-> 1], [change |-> And1, direction |-> 1]}

\* The history variables base and clean after a handler took the session
\* from S to r.
AppNext(S, res) ==
    CHOOSE out \in
        {[db |-> r.db, st |-> r.st,
          base |-> [g \in GameIds |->
                     IF S.st.undo[g] = <<>> THEN StatsOfGame(S.db, g) ELSE S.base[g]],
          clean |-> [g \in GameIds |->
                     /\ (S.st.undo[g] = <<>> \/ S.clean[g])
                     /\ PlayersOf(r.db, g) = PlayersOf(S.db, g)
                     /\ ~(Len(S.st.undo[g]) = UndoCap /\ r.st.undo[g] # S.st.undo[g]
                          /\ Len(r.st.undo[g]) = UndoCap)]] : r \in {res}} : TRUE

Fresh ==
    [db |-> EmptyDb, st |-> NewSession,
     base |-> [g \in GameIds |-> {}], clean |-> [g \in GameIds |-> TRUE]]

\* Sessions the handlers reach: logged in (FixtureLogin) with a both-teams
\* game open (FixtureOpen), and the same after a basket for each side
\* (FixturePlayed).
FixtureLogin ==
    CHOOSE out \in {AppNext(S, SaveEmail(S.db, S.st, "a@x.org")) : S \in {Fresh}} : TRUE

FixtureOpen ==
    CHOOSE out \in {AppNext(S, CreateGameBtn(S.db, S.st, TRUE)) : S \in {FixtureLogin}} : TRUE

FixtureHome ==
    CHOOSE out \in {AppNext(S, ApplyDelta(S.db, S.st, Made2, 1)) : S \in {FixtureOpen}} : TRUE

FixtureAway ==
    CHOOSE out \in {AppNext(S, SetLiveTeam(S.db, S.st, "Away")) : S \in {FixtureHome}} : TRUE

FixturePlayed ==
    CHOOSE out \in {AppNext(S, ApplyDelta(S.db, S.st, Made3, 1)) : S \in {FixtureAway}} : TRUE

Init ==
    /\ \E S \in {Fresh, FixtureOpen, FixturePlayed} :
        /\ db = S.db
        /\ st = S.st
        /\ base = S.base
        /\ clean = S.clean
    /\ lastOp = NoOp
    /\ lastPre = [db |-> EmptyDb, st |-> NewSession, before |-> EmptyDb]
    /\ rosterArg = [g \in GameIds |-> NoArg]
    /\ steps = 0

Cur == [db |-> db, st |-> st, base |-> base, clean |-> clean]

AppStep(r, op) ==
    /\ steps < MaxAppSteps
    /\ steps' = steps + 1
    /\ \E S \in {AppNext(Cur, r)} :
        /\ db' = S.db
        /\ st' = S.st
        /\ base' = S.base
        /\ clean' = S.clean
    /\ lastOp' = op
    /\ lastPre' = [db |-> db, st |-> st,
                   before |-> IF op.op = "undo_last" /\ op.after_add THEN lastPre.db ELSE db]
    /\ UNCHANGED rosterArg

CurRoster == LoadRoster(db, st.game_id)

\* The script got past load_game: a game is open and has a roster.
GameOpen == st.game_id # 0 /\ CurRoster # <<>>

ASaveEmail(e) ==
    AppStep(SaveEmail(db, st, e), [op |-> "save_email", email |-> e])

AChooseGame(c) ==
    /\ st.email # ""
    /\ c = 0 \/ \E g \in db.games : g.id = c /\ g.user_id = UserIdOf(db, st.email)
    /\ AppStep(ChooseGame(db, st, c), [op |-> "choose_game", choice |-> c])

ACreateGame(both) ==
    /\ st.email # ""
    /\ st.choice = 0
    /\ db.seq.games < MaxGames
    /\ AppStep(CreateGameBtn(db, st, both), [op |-> "create_game", both |-> both])

ADeleteGame ==
    /\ st.game_id # 0
    /\ AppStep(DeleteGameBtn(db, st), [op |-> "delete_game"])

AUpdateRosters(edit) ==
    LET r == UpdateRosters(db, st, edit.home, edit.away)
    IN  /\ GameOpen
        /\ is_both_teams_game(CurRoster)
        /\ r.db.seq.players <= 2 * NDefault * MaxGames + MaxNewPlayers
        /\ AppStep(r, [op |-> "update_rosters", edit |-> edit])

AUpdateRoster(text) ==
    LET r == UpdateRoster(db, st, text)
    IN  /\ GameOpen
        /\ ~is_both_teams_game(CurRoster)
        /\ r.db.seq.players <= 2 * NDefault * MaxGames + MaxNewPlayers
        /\ AppStep(r, [op |-> "update_roster", text |-> text])

ASetLiveTeam(team) ==
    /\ GameOpen
    /\ is_both_teams_game(CurRoster)
    /\ AppStep(SetLiveTeam(db, st, team), [op |-> "set_live_team", team |-> team])

ASyncSelectedPlayer(n) ==
    /\ GameOpen
    /\ n \in Range(active_roster(CurRoster, st.live_team[st.game_id]))
    /\ AppStep(SyncSelectedPlayer(db, st, n), [op |-> "select_player", name |-> n])

AApplyDelta(a) ==
    /\ GameOpen
    /\ AppStep(ApplyDelta(db, st, a.change, a.direction),
               [op |-> "apply_delta", change |-> a.change, direction |-> a.direction])

\* The button is drawn from the stack of the run before; the handler's own
\* guard decides on an empty stack.
AUndoLast ==
    /\ GameOpen
    /\ AppStep(UndoLast(db, st),
               [op |-> "undo_last",
                after_add |-> lastOp.op = "apply_delta" /\ lastOp.direction = 1,
                run |-> IF lastOp.op = "undo_last" THEN lastOp.run + 1 ELSE 1])

Next ==
    \/ \E e \in AppEmails : ASaveEmail(e)
    \/ \E c \in {0} \cup GameIds : AChooseGame(c)
    \/ \E both \in BOOLEAN : ACreateGame(both)
    \/ ADeleteGame
    \/ \E edit \in BothEdits : AUpdateRosters(edit)
    \/ \E text \in OneEdits : AUpdateRoster(text)
    \/ \E team \in {"Home", "Away"} : ASetLiveTeam(team)
    \/ \E n \in {p.name : p \in db.players} : ASyncSelectedPlayer(n)
    \/ \E a \in AppActions : AApplyDelta(a)
    \/ AUndoLast

Spec == Init /\ [][Next]_vars

(***************************************************************************)
(* SpecCap: the Live page of a long game.  The session starts where the    *)
(* log and the undo stack are at their caps: FixturePlayed and then the    *)
(* And-1 button until the log holds LogCap entries.                        *)
(***************************************************************************)
\* The session after n presses of And-1 in the session S (the first half of
\* the presses, then the rest).
RECURSIVE Pressed(_, _)
Pressed(S, n) ==
    IF n = 0 THEN S
    ELSE IF n = 1
    THEN CHOOSE out \in {AppNext(T, ApplyDelta(T.db, T.st, And1, 1)) : T \in {S}} : TRUE
    ELSE CHOOSE out \in {Pressed(T, n - (n \div 2)) : T \in {Pressed(S, n \div 2)}} : TRUE

FixtureFull == Pressed(FixturePlayed, LogCap - 2)

InitCap ==
    /\ \E S \in {FixtureFull} :
        /\ db = S.db
        /\ st = S.st
        /\ base = S.base
        /\ clean = S.clean
    /\ lastOp = NoOp
    /\ lastPre = [db |-> EmptyDb, st |-> NewSession, before |-> EmptyDb]
    /\ rosterArg = [g \in GameIds |-> NoArg]
    /\ steps = 0

NextCap ==
    \/ \E team \in {"Home", "Away"} : ASetLiveTeam(team)
    \/ \E n \in {p.name : p \in db.players} : ASyncSelectedPlayer(n)
    \/ \E a \in AppActions : AApplyDelta(a)
    \/ AUndoLast

SpecCap == InitCap /\ [][NextCap]_vars

\* SpecStale: the Live page of a session whose undo stack holds a record of a
\* player that the roster editor removed: "Opponent 1" was replaced by "B"
\* (FixtureGone) and then put back in place of "B" (FixtureBack).
StalePid == LoadNameToPid(FixturePlayed.db, 1)[Nm(AWAY_PREFIX, "Opponent 1")]

FixtureGone ==
    CHOOSE out \in {AppNext(S, UpdateRosters(S.db, S.st, <<Line("Player 1")>>, <<Line("B")>>)) :
                        S \in {FixturePlayed}} : TRUE

FixtureBack ==
    CHOOSE out \in {AppNext(S, UpdateRosters(S.db, S.st, <<Line("Player 1")>>,
                                             <<Line("Opponent 1")>>)) :
                        S \in {FixtureGone}} : TRUE

InitStale ==
    /\ \E S \in {FixtureGone, FixtureBack} :
        /\ db = S.db
        /\ st = S.st
        /\ base = S.base
        /\ clean = S.clean
    /\ lastOp = NoOp
    /\ lastPre = [db |-> EmptyDb, st |-> NewSession, before |-> EmptyDb]
    /\ rosterArg = [g \in GameIds |-> NoArg]
    /\ steps = 0

SpecStale == InitStale /\ [][NextCap]_vars

\* SpecPro: signing in, opening the app's address and paying.
InitPro ==
    /\ \E S \in {Fresh, FixtureLogin} :
        /\ db = S.db
        /\ st = S.st
        /\ base = S.base
        /\ clean = S.clean
    /\ lastOp = NoOp
    /\ lastPre = [db |-> EmptyDb, st |-> NewSession, before |-> EmptyDb]
    /\ rosterArg = [g \in GameIds |-> NoArg]
    /\ steps = 0

AOpenUrl(upgraded) ==
    AppStep(OpenUrl(db, st, upgraded), [op |-> "open_url", upgraded |-> upgraded])

ACheckout ==
    /\ st.email # ""
    /\ ~IsUserPro(db, UserIdOf(db, st.email))
    /\ AppStep(CheckoutDone(db, st), [op |-> "checkout"])

NextPro ==
    \/ \E e \in AppEmails : ASaveEmail(e)
    \/ \E upgraded \in BOOLEAN : AOpenUrl(upgraded)
    \/ ACheckout

SpecPro == InitPro /\ [][NextPro]_vars

(***************************************************************************)
(* app.py: the helpers of the pages, and SpecFn, which calls each of them  *)
(* once on an input drawn by InitFn.                                       *)
(***************************************************************************)
\* round(x, 1) of the quotient num / den, in tenths: the nearest tenth, a
\* tie to the even one.
RoundTenths(num, den) ==
    LET n == IF den < 0 THEN 0 - num * 10 ELSE num * 10
        d == IF den < 0 THEN 0 - den ELSE den
        q == n \div d
        r == n % d
    IN  IF 2 * r < d THEN q
        ELSE IF 2 * r > d THEN q + 1
        ELSE IF q % 2 = 0 THEN q ELSE q + 1

\* pct(m, a), in tenths of a percent: round((m / a) * 100, 1) if a else 0.0
pct(m, a) == IF a # 0 THEN RoundTenths(m * 100, a) ELSE 0

total_reb(s) == s["OREB"] + s["DREB"]

\* max(lines, key=...): the first of the elements with the largest key.
FirstMaxMut(lines, key) ==
    lines[CHOOSE i \in DOMAIN lines :
            /\ \A j \in DOMAIN lines : lines[j][key] <= lines[i][key]
            /\ \A j \in DOMAIN lines : j > i => lines[j][key] < lines[i][key]]

FirstMax(lines, key) ==
    lines[CHOOSE i \in DOMAIN lines :
            /\ \A j \in DOMAIN lines : lines[j][key] <= lines[i][key]
            /\ \A j \in DOMAIN lines : j < i => lines[j][key] < lines[i][key]]

\* The leader of an empty roster (None).
NoLine == [none |-> TRUE]

statline(name, stats) ==
    LET s == stats[name]
    IN  [name |-> clean_name(name), PTS |-> points(s), REB |-> total_reb(s),
         AST |-> s["AST"], TOV |-> s["TOV"], FGM |-> fgm(s), FGA |-> fga(s),
         TPM |-> s["3PM"], TPA |-> s["3PA"], FTM |-> s["FTM"], FTA |-> s["FTA"]]

leaders_from_roster(roster_list, stats) ==
    IF roster_list = <<>> THEN [PTS |-> NoLine, REB |-> NoLine, AST |-> NoLine]
    ELSE LET lines == [i \in DOMAIN roster_list |-> statline(roster_list[i], stats)]
         IN  [PTS |-> FirstMax(lines, "PTS"), REB |-> FirstMax(lines, "REB"),
              AST |-> FirstMax(lines, "AST")]

\* The loop of runs_from_log from entry i down, with pts and count so far.
RECURSIVE RunsScan(_, _, _, _, _, _)
RunsScan(log_entries, i, pts, count, team, last_n) ==
    IF i = 0 THEN pts
    ELSE IF log_entries[i].pts <= 0
    THEN RunsScan(log_entries, i - 1, pts, count, team, last_n)
    ELSE LET pts2 == IF log_entries[i].team = team THEN pts + log_entries[i].pts ELSE pts
         IN  IF count + 1 >= last_n THEN pts2
             ELSE RunsScan(log_entries, i - 1, pts2, count + 1, team, last_n)

runs_from_logMut(log_entries, team, last_n) ==
    RunsScan(log_entries, Len(log_entries), 0, 0, team, last_n + 1)

runs_from_log(log_entries, team, last_n) ==
    IF log_entries = <<>> THEN 0
    ELSE RunsScan(log_entries, Len(log_entries), 0, 0, team, last_n)

\* team_totals(roster, stats): the counters of the members, added up.
RECURSIVE team_totals(_, _)
team_totals(roster, stats) ==
    IF roster = <<>> THEN [k \in Range(STAT_KEYS) |-> 0]
    ELSE CHOOSE t \in {[k \in Range(STAT_KEYS) |-> stats[Head(roster)][k] + rest[k]] :
                        rest \in {team_totals(Tail(roster), stats)}} : TRUE

\* The attempts from which a percentage is compared.
MinAttempts == 3

Abs(x) == IF x < 0 THEN 0 - x ELSE x

\* The items of compute_takeaways before the cut to three.
TakeawayItems(th, ta) ==
    LET reb_diff == (th["OREB"] + th["DREB"]) - (ta["OREB"] + ta["DREB"])
        tov_diff == ta["TOV"] - th["TOV"]
        home_3p_pct == pct(th["3PM"], th["3PA"])
        away_3p_pct == pct(ta["3PM"], ta["3PA"])
        home_ft_pct == pct(th["FTM"], th["FTA"])
        away_ft_pct == pct(ta["FTM"], ta["FTA"])
        Lead(home) == IF home THEN "Home" ELSE "Away"
    IN  (IF reb_diff # 0
         THEN <<[item |-> "REB", lead |-> Lead(reb_diff > 0), n |-> Abs(reb_diff)]>>
         ELSE <<>>)
        \o (IF tov_diff # 0
            THEN <<[item |-> "TOV", lead |-> Lead(tov_diff > 0), n |-> Abs(tov_diff)]>>
            ELSE <<>>)
        \o (IF th["3PA"] >= MinAttempts \/ ta["3PA"] >= MinAttempts
            THEN <<[item |-> "3PT", lead |-> Lead(home_3p_pct > away_3p_pct),
                    home |-> home_3p_pct, away |-> away_3p_pct]>>
            ELSE <<>>)
        \o (IF th["FTA"] >= MinAttempts \/ ta["FTA"] >= MinAttempts
            THEN <<[item |-> "FT", lead |-> Lead(home_ft_pct > away_ft_pct),
                    home |-> home_ft_pct, away |-> away_ft_pct]>>
            ELSE <<>>)

compute_takeawaysMut(home, away, stats) ==
    TakeawayItems(team_totals(home, stats), team_totals(away, stats))

compute_takeaways(home, away, stats) ==
    LET items == TakeawayItems(team_totals(home, stats), team_totals(away, stats))
    IN  SubSeq(items, 1, IF Len(items) < 3 THEN Len(items) ELSE 3)

\* Counters run from -MaxStat to MaxStat (the minus buttons take a counter
\* below zero).
MaxStat == 3

\* The longest log of the small entries.
MaxLogLen == 6

Entry(team, pts) == [team |-> team, player |-> "A", pts |-> pts]

\* Logs: every list of up to MaxLogLen entries out of a basket for Home, a
\* three for Away and an entry without points, and one longer log whose six
\* newest scoring entries are, newest first, Home 2, Away 3, Home 2, Home 3,
\* Away 2, Home 1.
RECURSIVE LogsUpTo(_)
LogsUpTo(n) ==
    IF n = 0 THEN {<<>>}
    ELSE LogsUpTo(n - 1) \cup
         {Append(l, e) : l \in {x \in LogsUpTo(n - 1) : Len(x) = n - 1},
                         e \in {Entry("Home", 2), Entry("Away", 3), Entry("Home", 0)}}

ExampleLog ==
    <<Entry("Home", 3), Entry("Home", 1), Entry("Away", 2), Entry("Away", 0),
      Entry("Home", 3), Entry("Home", 2), Entry("Away", 3), Entry("Home", 0),
      Entry("Home", 2)>>

\* last_n: 6 is what the Live page passes; 2 makes the window shorter than
\* the small logs.
RunWindows == {2, 6}

\* The counters of a player of the leaders' input.
StatChoices ==
    {("2PM" :> 0), ("2PM" :> 1) @@ ("AST" :> 1) @@ ("OREB" :> 1),
     ("FTM" :> 2) @@ ("DREB" :> 1) @@ ("AST" :> 1), ("2PM" :> -1) @@ ("AST" :> 2)}

Full(c) == [k \in Range(STAT_KEYS) |-> Get(c, k)]

\* The counters of a player of the takeaways' input: none, a rebound, a
\* turnover, threes and free throws at and below MinAttempts, and all of it.
TakeChoices ==
    {("2PM" :> 0), ("OREB" :> 1), ("TOV" :> 1),
     ("3PM" :> 1) @@ ("3PA" :> 3), ("FTM" :> 2) @@ ("FTA" :> 3),
     ("3PM" :> 1) @@ ("3PA" :> 2) @@ ("FTA" :> 2),
     ("DREB" :> 2) @@ ("TOV" :> 2) @@ ("3PM" :> 2) @@ ("3PA" :> 4) @@ ("FTM" :> 1) @@ ("FTA" :> 3)}

TakeNames == {Nm(HOME_PREFIX, "A"), Nm(HOME_PREFIX, "B"), Nm(AWAY_PREFIX, "C")}

LeaderRosters ==
    {<<>>, <<Nm(HOME_PREFIX, "A")>>,
     <<Nm(HOME_PREFIX, "A"), Nm(HOME_PREFIX, "B")>>,
     <<Nm(HOME_PREFIX, "B"), Nm(HOME_PREFIX, "A")>>,
     <<Nm(HOME_PREFIX, "A"), Nm(HOME_PREFIX, "B"), Nm(HOME_PREFIX, "C")>>,
     <<Nm(HOME_PREFIX, "C"), Nm(HOME_PREFIX, "B"), Nm(HOME_PREFIX, "A")>>}

LeaderNames == {Nm(HOME_PREFIX, "A"), Nm(HOME_PREFIX, "B"), Nm(HOME_PREFIX, "C")}

FnInputs ==
    {[fn |-> "pct", m |-> m, a |-> a] : m \in (0 - MaxStat)..MaxStat, a \in (0 - MaxStat)..MaxStat}
    \cup {[fn |-> "leaders", roster |-> r, stats |-> [n \in LeaderNames |-> Full(c[n])]] :
            r \in LeaderRosters, c \in [LeaderNames -> StatChoices]}
    \cup {[fn |-> "runs", log |-> l, team |-> t, last_n |-> n] :
            l \in LogsUpTo(MaxLogLen) \cup {ExampleLog}, t \in {"Home", "Away"},
            n \in RunWindows}
    \cup {[fn |-> "takeaways", home |-> h, away |-> a,
           stats |-> [n \in TakeNames |-> Full(c[n])]] :
            h \in {<<>>, <<Nm(HOME_PREFIX, "A")>>, <<Nm(HOME_PREFIX, "A"), Nm(HOME_PREFIX, "B")>>},
            a \in {<<>>, <<Nm(AWAY_PREFIX, "C")>>},
            c \in [TakeNames -> TakeChoices]}

InitFn ==
    /\ lastPre \in FnInputs
    /\ lastOp = NoOp
    /\ db = EmptyDb
    /\ st = NewSession
    /\ rosterArg = [g \in GameIds |-> NoArg]
    /\ steps = 0
    /\ base = [g \in GameIds |-> {}]
    /\ clean = [g \in GameIds |-> TRUE]

Called(op) ==
    /\ lastOp = NoOp
    /\ lastOp' = op
    /\ UNCHANGED <<db, lastPre, rosterArg, steps, st, base, clean>>

CallPct ==
    /\ lastPre.fn = "pct"
    /\ Called([op |-> "pct", result |-> pct(lastPre.m, lastPre.a)])

CallLeaders ==
    /\ lastPre.fn = "leaders"
    /\ Called([op |-> "leaders", result |-> leaders_from_roster(lastPre.roster, lastPre.stats)])

CallRuns ==
    /\ lastPre.fn = "runs"
    /\ Called([op |-> "runs",
               result |-> runs_from_log(lastPre.log, lastPre.team, lastPre.last_n)])

CallTakeaways ==
    /\ lastPre.fn = "takeaways"
    /\ Called([op |-> "takeaways",
               result |-> compute_takeaways(lastPre.home, lastPre.away, lastPre.stats)])

NextFn == CallPct \/ CallLeaders \/ CallRuns \/ CallTakeaways

SpecFn == InitFn /\ [][NextFn]_vars

(***************************************************************************)
(* Claims about the store, checked under SpecDb.                           *)
(***************************************************************************)
\* C1: an apply_change followed by its exact negation (same game, player and
\* delta, opposite direction) leaves every counter row the delta touches at
\* the value it had before the first call, from any non-negative counters.
C1_RoundTrip ==
    (lastOp.op = "apply_change" /\ lastOp.negates
        /\ \A s \in lastPre.stats : s.stat_value >= 0)
    => Touched(db, lastOp.game_id, lastOp.player_id, lastOp.change)
       = Touched(lastPre, lastOp.game_id, lastOp.player_id, lastOp.change)

\* Reached: a round trip on a player that has the rows, one of them above zero
\* before the pair of calls.
C1_Witness ==
    /\ lastOp.op = "apply_change" /\ lastOp.negates
    /\ \A s \in lastPre.stats : s.stat_value >= 0
    /\ \E s \in Touched(lastPre, lastOp.game_id, lastOp.player_id, lastOp.change) :
            s.stat_value > 0

\* C2: set_roster called again with the name list (and keys) of the last
\* set_roster of that game changes no player row (names, ids) and no counter
\* row, whatever apply_change calls came in between.
C2_SetRosterIdempotent ==
    (lastOp.op = "set_roster" /\ lastOp.again)
    => /\ db.players = lastPre.players
       /\ db.stats = lastPre.stats

\* Reached: a re-submitted roster on a game that has a counter off zero.
C2_Witness ==
    /\ lastOp.op = "set_roster" /\ lastOp.again
    /\ \E s \in StatsOfGame(lastPre, lastOp.game_id) : s.stat_value # 0

\* C3: after delete_game by the owner of the game, no player row and no stat
\* row references the game, and no stat row references one of its players.
C3_DeleteCascades ==
    (lastOp.op = "delete_game"
        /\ \E g \in lastPre.games : g.id = lastOp.game_id /\ g.user_id = lastOp.user_id)
    => /\ \A g \in db.games : g.id # lastOp.game_id
       /\ PlayersOf(db, lastOp.game_id) = {}
       /\ StatsOfGame(db, lastOp.game_id) = {}
       /\ \A p \in PlayersOf(lastPre, lastOp.game_id) : StatsOfPlayer(db, p.id) = {}

\* Reached: the owner deletes a game that had players and a counter off zero.
C3_Witness ==
    /\ lastOp.op = "delete_game"
    /\ \E g \in lastPre.games : g.id = lastOp.game_id /\ g.user_id = lastOp.user_id
    /\ PlayersOf(lastPre, lastOp.game_id) # {}
    /\ \E s \in StatsOfGame(lastPre, lastOp.game_id) : s.stat_value # 0

\* C5: when set_roster(game, names, statKeys) returns, the stored names of the
\* game are exactly the names given; a name not stored before has one row per
\* key, all zero; a name stored before and not given is gone with its rows; a
\* name in both keeps its player row (id) and its counter rows.
C5_SetRosterReconciles ==
    (lastOp.op = "set_roster" /\ lastOp.ok)
    => LET g == lastOp.game_id
           old == PlayersOf(lastPre, g)
           new == PlayersOf(db, g)
       IN  /\ NamesOf(db, g) = Range(lastOp.roster)
           /\ \A p \in new : \A q \in new : p.name = q.name => p = q
           /\ \A p \in new :
                p.name \notin NamesOf(lastPre, g)
                => /\ \A s \in StatsOfPlayer(db, p.id) : s.stat_value = 0 /\ s.game_id = g
                   /\ {s.stat_key : s \in StatsOfPlayer(db, p.id)} = Range(lastOp.stat_keys)
                   /\ Cardinality(StatsOfPlayer(db, p.id)) = Len(lastOp.stat_keys)
           /\ \A p \in old :
                p.name \notin Range(lastOp.roster)
                => p \notin db.players /\ StatsOfPlayer(db, p.id) = {}
           /\ \A p \in old :
                p.name \in Range(lastOp.roster)
                => p \in db.players /\ StatsOfPlayer(lastPre, p.id) \subseteq db.stats

\* Reached: one set_roster that keeps a player with a counter off zero, deletes
\* another and inserts a third.
C5_Witness ==
    /\ lastOp.op = "set_roster" /\ lastOp.ok
    /\ \E p \in PlayersOf(lastPre, lastOp.game_id) :
            /\ p \in db.players
            /\ \E s \in StatsOfPlayer(db, p.id) : s.stat_value # 0
    /\ \E p \in PlayersOf(lastPre, lastOp.game_id) : p \notin db.players
    /\ \E p \in PlayersOf(db, lastOp.game_id) : p \notin lastPre.players

\* C12: delete_game(user, game) for a game that another user owns, or that
\* does not exist, changes no user, game, player or stat row (and raises
\* nothing: the call returns).
C12_DeleteNotOwnerNoOp ==
    (lastOp.op = "delete_game"
        /\ ~\E g \in lastPre.games : g.id = lastOp.game_id /\ g.user_id = lastOp.user_id)
    => db = lastPre

\* Reached: a stored user asks to delete a game of another user, the game
\* with players and a counter off zero.
C12_Witness ==
    /\ lastOp.op = "delete_game"
    /\ \E u \in lastPre.users : u.id = lastOp.user_id
    /\ \E g \in lastPre.games : g.id = lastOp.game_id /\ g.user_id # lastOp.user_id
    /\ PlayersOf(db, lastOp.game_id) # {}
    /\ \E s \in StatsOfGame(db, lastOp.game_id) : s.stat_value # 0

\* C13: get_or_create_user(email) returns the id of the one user row of the
\* e-mail: the row it finds, else the row it inserts; a call right after a
\* call with the same e-mail returns the same id; a call that finds the row
\* changes nothing (the pro flag stays); no call changes the row of another
\* user; a call with an empty e-mail fails and changes nothing.
C13_GetOrCreateUserIdempotent ==
    lastOp.op = "get_or_create_user"
    => LET rows == {u \in db.users : u.email = NormEmail(lastOp.email)}
           found == {u \in lastPre.users : u.email = NormEmail(lastOp.email)}
       IN  /\ lastOp.email \in {"", "   "} => ~lastOp.ok /\ db = lastPre
           /\ ~lastOp.ok => db = lastPre
           /\ lastOp.ok => /\ Cardinality(rows) = 1
                           /\ \A u \in rows : u.id = lastOp.id
                           /\ found # {} => db = lastPre
                           /\ lastPre.users \subseteq db.users
                           /\ lastOp.prev_id # 0 => lastOp.id = lastOp.prev_id

\* Reached: the second call in a row for the e-mail of a user on the pro
\* plan.
C13_Witness ==
    /\ lastOp.op = "get_or_create_user" /\ lastOp.ok
    /\ lastOp.prev_id # 0
    /\ \E u \in db.users : u.id = lastOp.id /\ u.is_pro = 1

\* C15: a set_roster call that raises part-way (a new name given twice, a
\* game that does not exist) leaves every row of the store as it was before
\* the call: none of its deletions and insertions persist.
C15_SetRosterAtomic ==
    (lastOp.op = "set_roster" /\ ~lastOp.ok) => db = lastPre

\* Reached: a call that raised on its second insertion, after it had deleted
\* a stored player with a counter off zero and inserted a new one.
C15_Witness ==
    /\ lastOp.op = "set_roster" /\ ~lastOp.ok
    /\ \E i \in DOMAIN lastOp.roster : \E j \in DOMAIN lastOp.roster :
            i < j /\ lastOp.roster[i] = lastOp.roster[j]
    /\ \E p \in PlayersOf(db, lastOp.game_id) :
            /\ p.name \notin Range(lastOp.roster)
            /\ \E s \in StatsOfPlayer(db, p.id) : s.stat_value # 0

\* C16: load_game on a game id that no game row has (never created, or
\* deleted) reports an error instead of returning a result.
C16_LoadMissingGameErrors ==
    (lastOp.op = "load_game" /\ \A g \in db.games : g.id # lastOp.game_id)
    => ~lastOp.result.ok

\* C17: load_game returns the players of the game in the order they were
\* inserted (ascending player id, whatever the order of the names in the
\* last set_roster), each name once, with its id, and for every player a
\* mapping defined on every key of stat_keys: the stored value where a row
\* is stored, zero where none is.
C17_LoadOrderAndDefaults ==
    lastOp.op = "load_game"
    => LET g == lastOp.game_id
           L == lastOp.result
           pid(n) == (CHOOSE p \in PlayersOf(db, g) : p.name = n).id
       IN  /\ Range(L.roster) = NamesOf(db, g)
           /\ Len(L.roster) = Cardinality(PlayersOf(db, g))
           /\ \A i \in DOMAIN L.roster : \A j \in DOMAIN L.roster :
                i < j => pid(L.roster[i]) < pid(L.roster[j])
           /\ DOMAIN L.name_to_pid = NamesOf(db, g)
           /\ DOMAIN L.player_stats = NamesOf(db, g)
           /\ \A n \in NamesOf(db, g) :
                /\ L.name_to_pid[n] = pid(n)
                /\ Range(lastOp.stat_keys) \subseteq DOMAIN L.player_stats[n]
                /\ \A k \in DOMAIN L.player_stats[n] :
                     \/ [game_id |-> g, player_id |-> pid(n), stat_key |-> k,
                         stat_value |-> L.player_stats[n][k]] \in db.stats
                     \/ /\ L.player_stats[n][k] = 0
                        /\ \A s \in StatsOfPlayer(db, pid(n)) : s.stat_key # k

\* Reached: a load after the names were given again in another order, with
\* a counter off zero and a key that has no row.
C17_Witness ==
    /\ lastOp.op = "load_game"
    /\ rosterArg[lastOp.game_id].set
    /\ Len(lastOp.result.roster) >= 2
    /\ rosterArg[lastOp.game_id].roster # lastOp.result.roster
    /\ Range(rosterArg[lastOp.game_id].roster) = Range(lastOp.result.roster)
    /\ \E n \in DOMAIN lastOp.result.player_stats :
            /\ lastOp.result.player_stats[n]["2PM"] > 0
            /\ lastOp.result.player_stats[n]["MIN"] = 0

\* C23: apply_change does not clamp at zero: a call with direction -1 on a
\* counter that stands at 0 is carried out and stores the negative value.
C23_SubtractBelowZero ==
    (lastOp.op = "apply_change" /\ lastOp.direction = -1) =>
        \A s \in lastOp.pre.stats :
            (/\ s.game_id = lastOp.game_id /\ s.player_id = lastOp.player_id
             /\ s.stat_key \in DOMAIN lastOp.change /\ s.stat_value = 0)
            => /\ [s EXCEPT !.stat_value = 0 - lastOp.change[s.stat_key]] \in db.stats
               /\ 0 - lastOp.change[s.stat_key] < 0

\* Reached: a call with direction -1 on a player with a counter of the delta
\* at 0, after which the store holds a counter below zero.
C23_Witness ==
    /\ lastOp.op = "apply_change" /\ lastOp.direction = -1
    /\ \E s \in lastOp.pre.stats :
            /\ s.game_id = lastOp.game_id /\ s.player_id = lastOp.player_id
            /\ s.stat_key \in DOMAIN lastOp.change /\ s.stat_value = 0
    /\ \E t \in db.stats : t.player_id = lastOp.player_id /\ t.stat_value < 0

\* C24: apply_change changes only the stored counter rows of its game and
\* player for the keys of the delta, each by direction times the delta of
\* its key; it creates no row, leaves every other counter, the players, the
\* games and the users as they were, and changes nothing when the player is
\* not a player of the game or is not stored.
C24_ApplyChangeFrame ==
    lastOp.op = "apply_change" =>
        /\ db.users = lastOp.pre.users
        /\ db.games = lastOp.pre.games
        /\ db.players = lastOp.pre.players
        /\ db.seq = lastOp.pre.seq
        /\ Cardinality(db.stats) = Cardinality(lastOp.pre.stats)
        /\ \A s \in lastOp.pre.stats :
                [s EXCEPT !.stat_value =
                    IF /\ s.game_id = lastOp.game_id /\ s.player_id = lastOp.player_id
                       /\ s.stat_key \in DOMAIN lastOp.change
                    THEN @ + lastOp.direction * lastOp.change[s.stat_key] ELSE @] \in db.stats
        /\ (~\E p \in lastOp.pre.players :
                p.id = lastOp.player_id /\ p.game_id = lastOp.game_id)
            => db = lastOp.pre

\* Reached: a call that changed counters of one player of a game while
\* another player of the store has a counter off zero.
C24_Witness ==
    /\ lastOp.op = "apply_change"
    /\ db.stats # lastOp.pre.stats
    /\ \E s \in db.stats : s.player_id # lastOp.player_id /\ s.stat_value # 0

(***************************************************************************)
(* Claims about the session, checked under Spec.  lastOp is the handler    *)
(* that led to the state and lastPre.db, lastPre.st the store and session  *)
(* it ran on.                                                              *)
(***************************************************************************)
\* The game the last handler ran on, and what it read there.
PreGid == lastPre.st.game_id

PreSel == lastPre.st.sel[PreGid]

PreStack == lastPre.st.undo[PreGid]

PreLog == lastPre.st.log[PreGid]

PreTop == PreStack[Len(PreStack)]

\* The last handler was apply_delta on a player load_game resolves.
Applied(direction) ==
    /\ lastOp.op = "apply_delta" /\ lastOp.direction = direction
    /\ PreSel \in NamesOf(lastPre.db, PreGid)

\* The last handler was undo_last on a stack that holds a record.
Undone == lastOp.op = "undo_last" /\ PreStack # <<>>

\* The counters of player n of game g as load_game returns them.
StatsRead(d, g, n) == LoadGame(d, g, STAT_KEYS).player_stats[n]

\* C4: apply_delta with direction +1 on a player seeded by set_roster raises
\* points of the player, read back through load_game, by exactly
\* 2*delta[2PM] + 3*delta[3PM] + delta[FTM] and fga by delta[2PA] +
\* delta[3PA]; an undo_last right after it returns points (and fga) of the
\* player to the value before the action.
C4_PointsOfDelta ==
    /\ Applied(1)
       => LET c == lastOp.change
              was == StatsRead(lastPre.db, PreGid, PreSel)
              now == StatsRead(db, PreGid, PreSel)
          IN  /\ points(now) = points(was) + 2 * Get(c, "2PM") + 3 * Get(c, "3PM")
                                 + Get(c, "FTM")
              /\ fga(now) = fga(was) + Get(c, "2PA") + Get(c, "3PA")
    /\ (Undone /\ lastOp.after_add)
       => \A n \in NamesOf(lastPre.before, PreGid) :
            /\ n \in NamesOf(db, PreGid)
            /\ points(StatsRead(db, PreGid, n)) = points(StatsRead(lastPre.before, PreGid, n))
            /\ fga(StatsRead(db, PreGid, n)) = fga(StatsRead(lastPre.before, PreGid, n))

\* Reached: {2PM: 1, 2PA: 1} on a player with no points gave 2 points and 1
\* attempt, and the undo_last after it left the player at 0 points.
C4_Witness ==
    /\ Undone /\ lastOp.after_add
    /\ PreTop.change = Made2
    /\ \E n \in NamesOf(db, PreGid) :
            /\ LoadNameToPid(db, PreGid)[n] = PreTop.pid
            /\ points(StatsRead(lastPre.before, PreGid, n)) = 0
            /\ points(StatsRead(lastPre.db, PreGid, n)) = 2
            /\ fga(StatsRead(lastPre.db, PreGid, n)) = 1
            /\ points(StatsRead(db, PreGid, n)) = 0

\* C6: every stored player has exactly one counter row for each key of
\* STAT_KEYS: none missing, none twice.
C6_OneRowPerKey ==
    \A p \in db.players :
        \E rows \in {{s \in db.stats : s.game_id = p.game_id /\ s.player_id = p.id}} :
            /\ {s.stat_key : s \in rows} = Range(STAT_KEYS)
            /\ Cardinality(rows) = Len(STAT_KEYS)

\* Reached: the roster editor added a player to a game that keeps a player
\* with a counter off zero and an undo record.
C6_Witness ==
    /\ lastOp.op \in {"update_rosters", "update_roster"}
    /\ \E q \in PlayersOf(db, PreGid) : q \notin lastPre.db.players
    /\ \E p \in PlayersOf(db, PreGid) :
            /\ p \in lastPre.db.players
            /\ \E s \in StatsOfPlayer(db, p.id) : s.stat_value # 0
    /\ st.undo[PreGid] # <<>>

\* The rows of the store after `change` is applied to player pid of game g
\* in direction dir.
RowsAfter(rows, g, pid, change, dir) ==
    {s \in rows : ~(s.game_id = g /\ s.player_id = pid /\ s.stat_key \in DOMAIN change)}
    \cup {[game_id |-> g, player_id |-> pid, stat_key |-> s.stat_key,
           stat_value |-> s.stat_value + dir * change[s.stat_key]] :
            s \in {t \in rows : t.game_id = g /\ t.player_id = pid
                                   /\ t.stat_key \in DOMAIN change}}

\* C7: undo_last on a stack that holds a record removes exactly the last
\* record of the stack and leaves the older ones as they were, applies the
\* delta of that record to the player of that record in the opposite
\* direction, and removes the last entry of the log if and only if the
\* record is flagged logged.
C7_UndoPopsTop ==
    Undone
    => /\ st.undo[PreGid] = [i \in 1..(Len(PreStack) - 1) |-> PreStack[i]]
       /\ db.stats = RowsAfter(lastPre.db.stats, PreGid, PreTop.pid, PreTop.change,
                               -PreTop.dir)
       /\ PreTop.logged => /\ PreLog # <<>>
                           /\ st.log[PreGid] = [i \in 1..(Len(PreLog) - 1) |-> PreLog[i]]
       /\ ~PreTop.logged => st.log[PreGid] = PreLog

\* Reached: an undo_last of a record that is not flagged, on a stack that
\* holds an older record and next to a log that holds an entry.
C7_Witness ==
    /\ Undone
    /\ ~PreTop.logged
    /\ Len(PreStack) >= 2
    /\ PreLog # <<>>
    /\ \E s \in db.stats : s \notin lastPre.db.stats

\* C8: apply_delta with direction +1 on a player that resolves appends
\* exactly one entry to the log, with the team of the player and
\* 2*delta[2PM] + 3*delta[3PM] + delta[FTM] as its points, and pushes exactly
\* one undo record, flagged logged; with direction -1 it leaves the log as
\* it was (and pushes one record that is not flagged).
C8_AddLogsOnce ==
    /\ (Applied(1) /\ Len(PreLog) < LogCap /\ Len(PreStack) < UndoCap)
       => LET c == lastOp.change
              pid == (CHOOSE p \in PlayersOf(lastPre.db, PreGid) : p.name = PreSel).id
          IN  /\ st.log[PreGid]
                    = PreLog \o <<[team |-> IF PreSel.pre = AWAY_PREFIX THEN "Away" ELSE "Home",
                                   player |-> PreSel.base,
                                   pts |-> 2 * Get(c, "2PM") + 3 * Get(c, "3PM")
                                           + Get(c, "FTM")]>>
              /\ st.undo[PreGid]
                    = PreStack \o <<[pid |-> pid, change |-> c, dir |-> 1, logged |-> TRUE]>>
    /\ (Applied(-1) /\ Len(PreStack) < UndoCap)
       => /\ st.log[PreGid] = PreLog
          /\ Len(st.undo[PreGid]) = Len(PreStack) + 1
          /\ ~st.undo[PreGid][Len(PreStack) + 1].logged

\* Reached: a three-pointer of an Away player, logged for Away with 3 points
\* after an earlier entry.
C8_Witness ==
    /\ Applied(1)
    /\ lastOp.change = Made3
    /\ PreSel.pre = AWAY_PREFIX
    /\ PreLog # <<>>
    /\ st.log[PreGid][Len(PreLog) + 1].pts = 3
    /\ st.log[PreGid][Len(PreLog) + 1].team = "Away"

\* The rows after the records of a stack are applied to `rows` in order.
RECURSIVE Replay(_, _, _)
Replay(rows, g, stack) ==
    IF stack = <<>> THEN rows
    ELSE Replay(RowsAfter(rows, g, stack[1].pid, stack[1].change, stack[1].dir),
                g, Tail(stack))

\* C9: as long as the roster of a game is the one the undo stack of the game
\* was empty on (and no record was dropped at the cap of 200), the counters
\* of the game are the counters of that moment with the records of the stack
\* applied in order: every undo_last takes back exactly the latest action
\* that is left, and when the stack is empty again every counter is at its
\* value before the sequence.
C9_UndoWalksBack ==
    \A g \in GameIds :
        clean[g] => StatsOfGame(db, g) = Replay(base[g], g, st.undo[g])

\* Reached: two undo_last in a row emptied a stack of two actions on
\* different players, the roster unchanged.
C9_Witness ==
    /\ lastOp.op = "undo_last" /\ lastOp.run >= 2
    /\ Len(PreStack) = 1
    /\ st.undo[PreGid] = <<>>
    /\ clean[PreGid]
    /\ StatsOfGame(db, PreGid) = base[PreGid]
    /\ StatsOfGame(lastPre.db, PreGid) # base[PreGid]

\* C10: undo_last on an empty undo stack changes no row of the store, no
\* entry of the log and no undo record.
C10_UndoEmptyNoOp ==
    (lastOp.op = "undo_last" /\ PreStack = <<>>)
    => /\ db = lastPre.db
       /\ st.log = lastPre.st.log
       /\ st.undo = lastPre.st.undo

\* Reached: a second undo_last in a row, after the first one took the last
\* record off the stack.
C10_Witness ==
    /\ lastOp.op = "undo_last" /\ PreStack = <<>>
    /\ lastOp.run >= 2
    /\ PlayersOf(db, PreGid) # {}

\* The names of a side among the stored names of a game.
SideOf(d, g, team) ==
    {n \in NamesOf(d, g) : (IF n.pre = AWAY_PREFIX THEN "Away" ELSE "Home") = team}

\* C14: a roster edit that leaves the roster empty or, in a both-teams game,
\* the Home side or the Away side without a player is rejected and changes
\* nothing in the store; so an edit that changed the store left a roster
\* with a player and, in a both-teams game, a player on each side.
C14_EmptySideRejected ==
    /\ (lastOp.op = "update_rosters" /\ db # lastPre.db)
       => SideOf(db, PreGid, "Home") # {} /\ SideOf(db, PreGid, "Away") # {}
    /\ (lastOp.op = "update_roster" /\ db # lastPre.db)
       => NamesOf(db, PreGid) # {}

(***************************************************************************)
(* Claims about a long game, checked under SpecCap.                        *)
(***************************************************************************)
\* The last m elements of a list, in their order (all of it when it is
\* shorter).
Newest(seq, m) ==
    LET n == IF Len(seq) < m THEN Len(seq) ELSE m
    IN  [i \in 1..n |-> seq[Len(seq) - n + i]]

\* C11: the log of a game never holds more than 500 entries and the undo
\* stack never more than 200 records; an apply_delta that would exceed a cap
\* leaves the most recent 500 entries (200 records) in their order: what it
\* appended is last and the oldest are the ones dropped.
C11_CapsKeepNewest ==
    /\ \A g \in GameIds : Len(st.log[g]) <= 500 /\ Len(st.undo[g]) <= 200
    /\ \A d \in {1, -1} :
        Applied(d)
        => /\ Len(st.undo[PreGid]) = IF Len(PreStack) < 200 THEN Len(PreStack) + 1 ELSE 200
           /\ \E rec \in {st.undo[PreGid][Len(st.undo[PreGid])]} :
                /\ rec.change = lastOp.change /\ rec.dir = d
                /\ st.undo[PreGid] = Newest(PreStack \o <<rec>>, 200)
           /\ d = 1
              => /\ Len(st.log[PreGid]) = IF Len(PreLog) < 500 THEN Len(PreLog) + 1 ELSE 500
                 /\ \E e \in {st.log[PreGid][Len(st.log[PreGid])]} :
                      /\ e.player = PreSel.base
                      /\ st.log[PreGid] = Newest(PreLog \o <<e>>, 500)

\* Reached: an add on a log of 500 entries and a stack of 200 records, the
\* oldest entry and the oldest record unlike the ones after them.
C11_Witness ==
    /\ Applied(1)
    /\ Len(PreLog) = 500 /\ Len(PreStack) = 200
    /\ PreLog[1] # PreLog[2]
    /\ PreLog[500] # st.log[PreGid][500]
    /\ PreStack[200] # st.undo[PreGid][200]

\* C25: the undo stack and the log stay in step, also after a cap dropped
\* old entries: the records flagged logged are no more than the log entries,
\* and the i-th newest of them is the record of the i-th newest log entry
\* (the points of its delta, and the name and side of its player where the
\* player is still stored).
C25_UndoAndLogInStep ==
    \A g \in GameIds :
        \E U \in {st.undo[g]}, L \in {st.log[g]} :
            \E I \in {{i \in DOMAIN U : U[i].logged}} :
                /\ Cardinality(I) <= Len(L)
                /\ \A i \in I :
                    \E e \in {L[Len(L) + 1 - Cardinality({j \in I : j >= i})]} :
                        /\ U[i].dir = 1
                        /\ e.pts = change_points(U[i].change)
                        /\ \A p \in db.players :
                                p.id = U[i].pid
                                => e.player = clean_name(p.name) /\ e.team = team_of(p.name)

\* Reached: an undo took the newest entry off a log that the cap had cut to
\* LogCap entries, while the stack, cut to UndoCap records before, holds a
\* record that is not flagged logged.
C25_Witness ==
    /\ lastOp.op = "undo_last"
    /\ Len(lastPre.st.log[PreGid]) = LogCap
    /\ Len(st.log[PreGid]) = LogCap - 1
    /\ Len(st.undo[PreGid]) = UndoCap - 1
    /\ \E i \in DOMAIN st.undo[PreGid] : ~st.undo[PreGid][i].logged

(***************************************************************************)
(* Claims about the helpers, checked under SpecFn.                         *)
(***************************************************************************)
\* C18: pct(made, attempted) is 0.0 whenever attempted is not greater than
\* 0, attempted below zero included.
C18_PctZeroWithoutAttempts ==
    (lastOp.op = "pct" /\ lastPre.a <= 0) => lastOp.result = 0

\* C19: for each of points, rebounds and assists, leaders_from_roster
\* returns a member of the roster with the largest value, and of several
\* members with the largest value the one that comes first in the roster.
C19_LeadersFirstMaximum ==
    (lastOp.op = "leaders" /\ lastPre.roster # <<>>) =>
        \A cat \in {"PTS", "REB", "AST"} :
            \E val \in {[i \in DOMAIN lastPre.roster |->
                            LET s == lastPre.stats[lastPre.roster[i]]
                            IN  IF cat = "PTS" THEN 2 * s["2PM"] + 3 * s["3PM"] + s["FTM"]
                                ELSE IF cat = "REB" THEN s["OREB"] + s["DREB"]
                                ELSE s["AST"]]} :
                \E i \in DOMAIN val :
                    /\ lastOp.result[cat].name = clean_name(lastPre.roster[i])
                    /\ lastOp.result[cat][cat] = val[i]
                    /\ \A j \in DOMAIN val : val[j] <= val[i]
                    /\ \A j \in DOMAIN val : j < i => val[j] < val[i]

\* The leaders of a roster of three were computed, the second and the third
\* member tie for the most points ahead of the first, and the second member
\* is the points leader.
C19_Witness ==
    /\ lastOp.op = "leaders"
    /\ Len(lastPre.roster) = 3
    /\ points(lastPre.stats[lastPre.roster[2]]) = points(lastPre.stats[lastPre.roster[3]])
    /\ points(lastPre.stats[lastPre.roster[1]]) < points(lastPre.stats[lastPre.roster[2]])
    /\ lastOp.result["PTS"].name = clean_name(lastPre.roster[2])

\* The points of the entries of log at the positions in I.
RECURSIVE SumPts(_, _)
SumPts(log, I) ==
    IF I = {} THEN 0
    ELSE LET i == CHOOSE x \in I : TRUE
         IN  log[i].pts + SumPts(log, I \ {i})

\* C20: runs_from_log(log, team, n) is the sum of the points of the entries
\* of team among the n most recent scoring entries (pts > 0) of the log;
\* entries without points do not use up the window, and with fewer than n
\* scoring entries all of them count.
C20_RunsOfLastScoring ==
    lastOp.op = "runs" =>
        \E scoring \in {{i \in DOMAIN lastPre.log : lastPre.log[i].pts > 0}} :
            \E window \in {{i \in scoring :
                              Cardinality({j \in scoring : j >= i}) <= lastPre.last_n}} :
                lastOp.result =
                    SumPts(lastPre.log, {i \in window : lastPre.log[i].team = lastPre.team})

\* The run of Home over the last six scoring entries was computed on the log
\* whose scoring entries are, newest first, Home 2, Away 3, Home 2, Home 3,
\* Away 2, Home 1 and an older Home 3, with entries without points in
\* between: it is 8.
C20_Witness ==
    /\ lastOp.op = "runs"
    /\ lastPre.log = ExampleLog
    /\ lastPre.team = "Home"
    /\ lastPre.last_n = 6
    /\ lastOp.result = 8

\* The takeaways that apply to the totals th and ta, in the fixed order: the
\* rebounds and the turnovers when their differential is not zero, a
\* percentage when a team has MinAttempts attempts.
Applicable(th, ta) ==
    Filter(<<"REB", "TOV", "3PT", "FT">>,
           {x \in {"REB"} : th["OREB"] + th["DREB"] # ta["OREB"] + ta["DREB"]}
           \cup {x \in {"TOV"} : th["TOV"] # ta["TOV"]}
           \cup {x \in {"3PT"} : th["3PA"] >= 3 \/ ta["3PA"] >= 3}
           \cup {x \in {"FT"} : th["FTA"] >= 3 \/ ta["FTA"] >= 3})

\* C21: compute_takeaways returns at most three items, the first three that
\* apply in the order rebounds, turnovers, 3PT%, FT%; the rebound and the
\* turnover item apply exactly when their differential is not zero, a
\* percentage item only when the threshold of 3 attempts is met.
C21_TakeawaysFirstThree ==
    lastOp.op = "takeaways" =>
        \E app \in {Applicable(team_totals(lastPre.home, lastPre.stats),
                                team_totals(lastPre.away, lastPre.stats))} :
            /\ Len(lastOp.result) <= 3
            /\ Len(lastOp.result) = (IF Len(app) < 3 THEN Len(app) ELSE 3)
            /\ \A i \in DOMAIN lastOp.result : lastOp.result[i].item = app[i]

\* The takeaways were computed for two teams of which all four items apply:
\* the three returned are the rebounds, the turnovers and the 3PT%.
C21_Witness ==
    /\ lastOp.op = "takeaways"
    /\ Len(Applicable(team_totals(lastPre.home, lastPre.stats),
                      team_totals(lastPre.away, lastPre.stats))) = 4
    /\ Len(lastOp.result) = 3
    /\ lastOp.result[3].item = "3PT"

(***************************************************************************)
(* Claims about the pro plan, checked under SpecPro.                       *)
(***************************************************************************)
\* C22: no user is on the pro plan whose e-mail is not on the admin
\* allow-list and for whom no checkout was completed.
C22_ProOnlyByAllowListOrBilling ==
    \A u \in db.users : u.is_pro = 1 => (u.email \in ADMIN_EMAILS \/ u.email \in st.paid)

(***************************************************************************)
(* Claims about records of removed players, checked under SpecStale.       *)
(***************************************************************************)
\* C26: undoing a record of a player that set_roster removed from the game,
\* whether or not the name was added again since, changes no stored counter:
\* the player added again has a new id and counters at zero.
C26_StaleUndoChangesNothing ==
    (/\ lastOp.op = "undo_last" /\ PreStack # <<>>
     /\ \/ PreTop.pid = StalePid
        \/ \A p \in PlayersOf(lastPre.db, PreGid) : p.id # PreTop.pid)
    => db.stats = lastPre.db.stats

\* Reached: the record undone is the one of "Opponent 1" from before the
\* removal, while "Opponent 1" is on the roster again under a greater id with
\* every counter at zero and another player has a counter off zero.
C26_Witness ==
    /\ lastOp.op = "undo_last" /\ PreStack # <<>>
    /\ PreTop.pid = StalePid
    /\ \E p \in PlayersOf(db, PreGid) :
            /\ p.name = Nm(AWAY_PREFIX, "Opponent 1")
            /\ p.id > StalePid
            /\ \A t \in StatsOfPlayer(db, p.id) : t.stat_value = 0
    /\ \E t \in db.stats : t.stat_value # 0

====
